---- MODULE Spec2Model ----
(***************************************************************************)
(* The goose HTTP client (package http): JsonRequest, BinaryRequest and    *)
(* sendRequest, with the transport (http.Client.Do) as the environment.    *)
(* One call is in progress at a time; pc is the position of that call.     *)
(***************************************************************************)
EXTENDS Integers, Sequences, FiniteSets, TLC

VARIABLES
    AuthToken,   \* Client.AuthToken
    pc,          \* "idle", "built", "inflight", "replied", "done"
    kind,        \* "json" (JsonRequest) or "binary" (BinaryRequest), "" when idle
    reqData,     \* the caller's RequestData: ReqHeaders, ExpectedStatus, hasDest
    dest,        \* what RespValue / RespData points at (its current content)
    dest0,       \* the content of the destination when the call began
    reqHeader,   \* req.Header of the request being sent
    sent,        \* the headers of every request handed to the transport in this call
    throttle,    \* how many further attempts the transport answers "too many requests"
    k0,          \* throttle when the call began
    reply,       \* what c.Do returned: NoReply, an error or a response
    bodyOpen,    \* rawResp.Body has been handed out and not been closed
    err,         \* the error the call returns
    errInfo,     \* the error detail formatted into an unexpected-status error
    stdout,      \* what the call printed with fmt.Println
    logout       \* the diagnostic log the test captures

vars == <<AuthToken, pc, kind, reqData, dest, dest0, reqHeader, sent, throttle, k0,
          reply, bodyOpen, err, errInfo, stdout, logout>>

-----------------------------------------------------------------------------
(* Bounds and constants *)

MaxThrottle == 1

StatusOK == 200

StatusTooManyRequests == 429

Statuses == {StatusOK, 201, 404, StatusTooManyRequests}

ExpectedStatusLists == {<<>>, <<202, 201>>, <<StatusTooManyRequests, StatusOK>>}

Tokens == {"", "tok"}

TokenHeader == "X-Auth-Token"

RetryNotice == "Too many requests, retrying in"

-----------------------------------------------------------------------------
(* net/http Header: a map from canonical key to the list of its values *)

EmptyHeader == [k \in {} |-> <<>>]

CanonicalKey(k) == IF k = "x-auth-token" THEN "X-Auth-Token" ELSE k

HeaderAdd(h, k, v) ==
    LET ck == CanonicalKey(k)
    IN  IF ck \in DOMAIN h THEN [h EXCEPT ![ck] = Append(@, v)]
        ELSE h @@ (ck :> <<v>>)

HeaderValues(h, k) ==
    LET ck == CanonicalKey(k)
    IN  IF ck \in DOMAIN h THEN h[ck] ELSE <<>>

HeaderGet(h, k) ==
    IF HeaderValues(h, k) = <<>> THEN "" ELSE HeaderValues(h, k)[1]

\* The ReqHeaders a caller may pass; the first is nil.
ExtraHeaderChoices ==
    { EmptyHeader,
      ("X-Container-Read" :> <<".r:*">>),
      ("x-auth-token" :> <<"lower">>) @@ ("X-Auth-Token" :> <<"caller">>) }

ContentTypes == {"application/json", "application/json; charset=UTF-8", "text/plain"}

-----------------------------------------------------------------------------
(* Response bodies and encoding/json *)

BodyEnvelope == "{'error':{'message':'quota exceeded','code':413,'title':'Over Limit'}}"
BodyPartial == "{'error':{'message':'gone'}}"
BodyFault == "{'itemNotFound':{'message':'no such group','code':404}}"
BodyBadCode == "{'error':{'code':'413'}}"
BodyNetwork == "{'id':'net-1'}"
BodyText == "boom"
BodyEmpty == ""

Bodies == {BodyEnvelope, BodyPartial, BodyFault, BodyBadCode, BodyNetwork, BodyText, BodyEmpty}

JStr(s) == [t |-> "string", s |-> s]
JNum(n) == [t |-> "number", n |-> n]
JObj(f) == [t |-> "object", f |-> f]

\* json.Unmarshal into an interface{}: the generic value of a text, or a syntax error.
\* (The texts above are written with ' for the JSON double quote.)
ParseJSON(b) ==
    CASE b = BodyEnvelope ->
            [ok |-> TRUE, v |-> JObj("error" :> JObj(("message" :> JStr("quota exceeded"))
                                                     @@ ("code" :> JNum(413))
                                                     @@ ("title" :> JStr("Over Limit"))))]
      [] b = BodyPartial ->
            [ok |-> TRUE, v |-> JObj("error" :> JObj("message" :> JStr("gone")))]
      [] b = BodyFault ->
            [ok |-> TRUE, v |-> JObj("itemNotFound" :> JObj(("message" :> JStr("no such group"))
                                                            @@ ("code" :> JNum(404))))]
      [] b = BodyBadCode ->
            [ok |-> TRUE, v |-> JObj("error" :> JObj("code" :> JStr("413")))]
      [] b = BodyNetwork ->
            [ok |-> TRUE, v |-> JObj("id" :> JStr("net-1"))]
      [] OTHER -> [ok |-> FALSE, v |-> JStr("")]

\* A string / int struct field: absent keeps the old value, a value of another
\* JSON type is an UnmarshalTypeError.
FieldOK(obj, key, type) == key \notin DOMAIN obj \/ obj[key].t = type

StrField(obj, key, old) == IF key \in DOMAIN obj THEN obj[key].s ELSE old

IntField(obj, key, old) == IF key \in DOMAIN obj THEN obj[key].n ELSE old

ZeroErrorResponse == [Message |-> "", Code |-> 0, Title |-> ""]

\* json.Unmarshal(body, &wrappedErr) with wrappedErr a zero ErrorWrapper.
UnmarshalErrorWrapper(b) ==
    LET p == ParseJSON(b)
    IN  IF ~p.ok \/ p.v.t # "object"
        THEN [ok |-> FALSE, Error |-> ZeroErrorResponse]
        ELSE IF "error" \notin DOMAIN p.v.f
        THEN [ok |-> TRUE, Error |-> ZeroErrorResponse]
        ELSE LET e == p.v.f["error"]
             IN  IF e.t # "object" \/ ~FieldOK(e.f, "message", "string")
                    \/ ~FieldOK(e.f, "code", "number") \/ ~FieldOK(e.f, "title", "string")
                 THEN [ok |-> FALSE, Error |-> ZeroErrorResponse]
                 ELSE [ok |-> TRUE,
                       Error |-> [Message |-> StrField(e.f, "message", ""),
                                  Code |-> IntField(e.f, "code", 0),
                                  Title |-> StrField(e.f, "title", "")]]

\* json.Unmarshal(respBody, &reqData.RespValue) with RespValue a pointer to a
\* struct { Id string `json:"id"` } whose Id is old.
UnmarshalRespValue(b, old) ==
    LET p == ParseJSON(b)
    IN  IF ~p.ok \/ p.v.t # "object" \/ ~FieldOK(p.v.f, "id", "string")
        THEN [ok |-> FALSE, Id |-> old]
        ELSE [ok |-> TRUE, Id |-> StrField(p.v.f, "id", old)]

-----------------------------------------------------------------------------
(* sendRequest *)

\* The order in which `range extraHeaders` visits the keys: any order.
KeyOrders(extra) ==
    { o \in [1..Cardinality(DOMAIN extra) -> DOMAIN extra] :
        \A i, j \in DOMAIN o : i # j => o[i] # o[j] }

RECURSIVE AddValues(_, _, _)
AddValues(h, header, values) ==
    IF values = <<>> THEN h
    ELSE AddValues(HeaderAdd(h, header, Head(values)), header, Tail(values))

RECURSIVE MergeHeaders(_, _, _)
MergeHeaders(h, extra, order) ==
    IF order = <<>> THEN h
    ELSE MergeHeaders(AddValues(h, Head(order), extra[Head(order)]), extra, Tail(order))

\* AddAuthToken without the test for an empty token.
AddAuthTokenAlways(h, token) == HeaderAdd(h, TokenHeader, token)

AddAuthToken(h, token) ==
    IF token # "" THEN HeaderAdd(h, TokenHeader, token) ELSE h

\* OutgoingHeader with the token added before the caller's headers.
OutgoingHeaderTokenFirst(h, extra, order, token) ==
    MergeHeaders(AddAuthToken(h, token), extra, order)

\* The header of the request as handed to c.Do.
OutgoingHeader(h, extra, order, token) ==
    AddAuthToken(MergeHeaders(h, extra, order), token)

DefaultExpected(expectedStatus) ==
    IF Len(expectedStatus) = 0 THEN <<StatusOK>> ELSE expectedStatus

\* FoundStatus matching the class of the status (2xx) instead of the exact code.
RECURSIVE FoundStatusClass(_, _)
FoundStatusClass(statusCode, expectedStatus) ==
    IF expectedStatus = <<>> THEN FALSE
    ELSE IF statusCode \div 100 = Head(expectedStatus) \div 100 THEN TRUE
    ELSE FoundStatusClass(statusCode, Tail(expectedStatus))

RECURSIVE FoundStatus(_, _)
FoundStatus(statusCode, expectedStatus) ==
    IF expectedStatus = <<>> THEN FALSE
    ELSE IF statusCode = Head(expectedStatus) THEN TRUE
    ELSE FoundStatus(statusCode, Tail(expectedStatus))

\* Rejected without the default: an empty list accepts every status.
RejectedNoDefault(statusCode, expectedStatus) ==
    /\ ~FoundStatus(statusCode, expectedStatus)
    /\ Len(expectedStatus) > 0

\* The response goes down the error path.
Rejected(statusCode, expectedStatus) ==
    /\ ~FoundStatus(statusCode, DefaultExpected(expectedStatus))
    /\ Len(DefaultExpected(expectedStatus)) > 0

NoInfo == [structured |-> FALSE, raw |-> "", Error |-> ZeroErrorResponse]

\* ExtractError decoding whatever the content type is.
ExtractErrorAnyType(body, contentType) ==
    IF UnmarshalErrorWrapper(body).ok
    THEN [structured |-> TRUE, raw |-> "", Error |-> UnmarshalErrorWrapper(body).Error]
    ELSE [structured |-> FALSE, raw |-> body, Error |-> ZeroErrorResponse]

\* errInfo: the raw body, or the decoded ErrorResponse.
ExtractError(body, contentType) ==
    IF contentType = "application/json" /\ UnmarshalErrorWrapper(body).ok
    THEN [structured |-> TRUE, raw |-> "", Error |-> UnmarshalErrorWrapper(body).Error]
    ELSE [structured |-> FALSE, raw |-> body, Error |-> ZeroErrorResponse]

\* HandleResponse without the deferred Close of the error path.
HandleResponseNoDefer(resp, expectedStatus) ==
    IF Rejected(resp.StatusCode, expectedStatus)
    THEN [respBody |-> "", err |-> "status",
          errInfo |-> ExtractError(resp.Body, resp.ContentType), open |-> TRUE]
    ELSE [respBody |-> resp.Body, err |-> IF resp.readErr THEN "read" ELSE "none",
          errInfo |-> NoInfo, open |-> FALSE]

\* What sendRequest does with a response: the body it returns, its error, the
\* error detail, and whether rawResp.Body is still open when it returns.
HandleResponse(resp, expectedStatus) ==
    IF Rejected(resp.StatusCode, expectedStatus)
    THEN [respBody |-> "", err |-> "status",
          errInfo |-> ExtractError(resp.Body, resp.ContentType), open |-> FALSE]
    ELSE [respBody |-> resp.Body, err |-> IF resp.readErr THEN "read" ELSE "none",
          errInfo |-> NoInfo, open |-> FALSE]

\* What sendRequest returns for what c.Do returned.
SendRequestResult(rep, expectedStatus) ==
    IF rep.isErr
    THEN [respBody |-> "", err |-> "execute", errInfo |-> NoInfo, open |-> FALSE]
    ELSE HandleResponse(rep.resp, expectedStatus)

-----------------------------------------------------------------------------
(* The two entry points after sendRequest has returned *)

\* JsonRequest after sendRequest: a non-empty respBody is printed and decoded.
JsonDecode(res, hasDest, old) ==
    IF res.err # "none" THEN [dest |-> old, err |-> res.err, stdout |-> <<>>]
    ELSE IF res.respBody # "" /\ hasDest
    THEN LET r == UnmarshalRespValue(res.respBody, old)
         IN  [dest |-> r.Id, err |-> IF r.ok THEN "none" ELSE "unmarshal",
              stdout |-> <<ParseJSON(res.respBody)>>]
    ELSE [dest |-> old, err |-> "none", stdout |-> <<>>]

\* BinaryStore that never assigns the destination.
BinaryStoreNoCopy(res, hasDest, old) ==
    [dest |-> old, err |-> res.err, stdout |-> <<>>]

\* BinaryStore without the early return on an error of sendRequest.
BinaryStoreUnchecked(res, hasDest, old) ==
    IF res.respBody # "" /\ hasDest
    THEN [dest |-> res.respBody, err |-> res.err, stdout |-> <<>>]
    ELSE [dest |-> old, err |-> res.err, stdout |-> <<>>]

\* BinaryRequest after sendRequest: respBody is copied when it is not empty.
BinaryStore(res, hasDest, old) ==
    IF res.err # "none" THEN [dest |-> old, err |-> res.err, stdout |-> <<>>]
    ELSE IF res.respBody # "" /\ hasDest
    THEN [dest |-> res.respBody, err |-> "none", stdout |-> <<>>]
    ELSE [dest |-> old, err |-> "none", stdout |-> <<>>]

-----------------------------------------------------------------------------
(* The state machine *)

NoReply == [isErr |-> FALSE, isResp |-> FALSE,
            resp |-> [StatusCode |-> 0, ContentType |-> "", Body |-> "", readErr |-> FALSE]]

NoReqData == [ReqHeaders |-> EmptyHeader, ExpectedStatus |-> <<>>, hasDest |-> FALSE]

Responses ==
    [StatusCode : Statuses, ContentType : ContentTypes, Body : Bodies, readErr : BOOLEAN]

Init ==
    /\ AuthToken \in Tokens
    /\ pc = "idle"
    /\ kind = ""
    /\ reqData = NoReqData
    /\ dest = ""
    /\ dest0 = ""
    /\ reqHeader = EmptyHeader
    /\ sent = <<>>
    /\ throttle = 0
    /\ k0 = 0
    /\ reply = NoReply
    /\ bodyOpen = FALSE
    /\ err = "none"
    /\ errInfo = NoInfo
    /\ stdout = <<>>
    /\ logout = <<>>

\* The collaborator that authenticates replaces the token between calls.
Authenticate(t) ==
    /\ pc = "idle"
    /\ AuthToken' = t
    /\ UNCHANGED <<pc, kind, reqData, dest, dest0, reqHeader, sent, throttle, k0,
                   reply, bodyOpen, err, errInfo, stdout, logout>>

\* The entry point up to the call of sendRequest. reqBody is "nil" (no body),
\* "ok", or "bad" (a ReqValue json.Marshal rejects); urlOK is whether
\* http.NewRequest accepts the method and the URL; old is what the destination
\* holds; k is how many attempts the transport will throttle.
Begin(knd, contentType, hdrs, expected, reqBody, urlOK, hasDest, old, k) ==
    /\ pc = "idle"
    /\ kind' = knd
    /\ reqData' = [ReqHeaders |-> hdrs, ExpectedStatus |-> expected, hasDest |-> hasDest]
    /\ dest' = old
    /\ dest0' = old
    /\ throttle' = k
    /\ k0' = k
    /\ sent' = <<>>
    /\ reply' = NoReply
    /\ errInfo' = NoInfo
    /\ stdout' = <<>>
    /\ IF reqBody = "bad"
       THEN /\ err' = "marshal"
            /\ pc' = "done"
            /\ reqHeader' = EmptyHeader
       ELSE IF ~urlOK
       THEN /\ err' = "create"
            /\ pc' = "done"
            /\ reqHeader' = EmptyHeader
       ELSE /\ err' = "none"
            /\ pc' = "built"
            /\ reqHeader' = HeaderAdd(HeaderAdd(EmptyHeader, "Content-Type", contentType),
                                      "Accept", contentType)
    /\ UNCHANGED <<AuthToken, bodyOpen, logout>>

JsonRequest(hdrs, expected, reqValue, urlOK, hasDest, old, k) ==
    Begin("json", "application/json", hdrs, expected, reqValue, urlOK, hasDest, old, k)

\* ReqData is bytes: there is nothing to marshal.
BinaryRequest(hdrs, expected, hasReqData, urlOK, hasDest, old, k) ==
    Begin("binary", "application/octet-stream", hdrs, expected,
          IF hasReqData THEN "ok" ELSE "nil", urlOK, hasDest, old, k)

\* sendRequest up to c.Do(req): the request is handed to the transport.
SendRequest(order) ==
    /\ pc = "built"
    /\ reqHeader' = OutgoingHeader(reqHeader, reqData.ReqHeaders, order, AuthToken)
    /\ sent' = Append(sent, reqHeader')
    /\ pc' = "inflight"
    /\ UNCHANGED <<AuthToken, kind, reqData, dest, dest0, throttle, k0, reply, bodyOpen,
                   err, errInfo, stdout, logout>>

\* c.Do fails: no response.
TransportFail ==
    /\ pc = "inflight"
    /\ reply' = [NoReply EXCEPT !.isErr = TRUE]
    /\ pc' = "replied"
    /\ UNCHANGED <<AuthToken, kind, reqData, dest, dest0, reqHeader, sent, throttle, k0,
                   bodyOpen, err, errInfo, stdout, logout>>

\* c.Do returns a response, its body open; a throttling transport answers
\* "too many requests".
TransportRespond(resp) ==
    /\ pc = "inflight"
    /\ throttle > 0 => resp.StatusCode = StatusTooManyRequests
    /\ throttle' = IF throttle > 0 THEN throttle - 1 ELSE 0
    /\ reply' = [isErr |-> FALSE, isResp |-> TRUE, resp |-> resp]
    /\ bodyOpen' = TRUE
    /\ pc' = "replied"
    /\ UNCHANGED <<AuthToken, kind, reqData, dest, dest0, reqHeader, sent, k0,
                   err, errInfo, stdout, logout>>

\* The rest of sendRequest, and of the entry point that called it.
Receive ==
    /\ pc = "replied"
    /\ LET res == SendRequestResult(reply, reqData.ExpectedStatus)
           out == IF kind = "json" THEN JsonDecode(res, reqData.hasDest, dest)
                  ELSE BinaryStore(res, reqData.hasDest, dest)
       IN  /\ bodyOpen' = (bodyOpen /\ res.open)
           /\ errInfo' = res.errInfo
           /\ dest' = out.dest
           /\ err' = out.err
           /\ stdout' = out.stdout
    /\ pc' = "done"
    /\ UNCHANGED <<AuthToken, kind, reqData, dest0, reqHeader, sent, throttle, k0, reply,
                   logout>>

\* The caller has the result; the client is ready for the next call.
Return ==
    /\ pc = "done"
    /\ pc' = "idle"
    /\ kind' = ""
    /\ reqData' = NoReqData
    /\ dest' = ""
    /\ dest0' = ""
    /\ reqHeader' = EmptyHeader
    /\ sent' = <<>>
    /\ throttle' = 0
    /\ k0' = 0
    /\ reply' = NoReply
    /\ bodyOpen' = FALSE
    /\ err' = "none"
    /\ errInfo' = NoInfo
    /\ stdout' = <<>>
    /\ UNCHANGED <<AuthToken, logout>>

\* What the destination may hold when a call begins (nothing to hold without one).
Olds(hasDest) == IF hasDest THEN {"", "old"} ELSE {""}

Next ==
    \/ \E t \in Tokens : Authenticate(t)
    \/ \E hdrs \in ExtraHeaderChoices, expected \in ExpectedStatusLists,
          reqValue \in {"nil", "ok", "bad"}, urlOK \in BOOLEAN, hasDest \in BOOLEAN :
        \E old \in Olds(hasDest), k \in 0..MaxThrottle :
            JsonRequest(hdrs, expected, reqValue, urlOK, hasDest, old, k)
    \/ \E hdrs \in ExtraHeaderChoices, expected \in ExpectedStatusLists,
          hasReqData \in BOOLEAN, urlOK \in BOOLEAN, hasDest \in BOOLEAN :
        \E old \in Olds(hasDest), k \in 0..MaxThrottle :
            BinaryRequest(hdrs, expected, hasReqData, urlOK, hasDest, old, k)
    \/ \E order \in KeyOrders(reqData.ReqHeaders) : SendRequest(order)
    \/ TransportFail
    \/ \E resp \in Responses : TransportRespond(resp)
    \/ Receive
    \/ Return

Spec == Init /\ [][Next]_vars

-----------------------------------------------------------------------------
(* Properties *)

\* The statuses the call accepts.
AllowedSet ==
    IF reqData.ExpectedStatus = <<>> THEN {StatusOK}
    ELSE {reqData.ExpectedStatus[i] : i \in DOMAIN reqData.ExpectedStatus}

\* The call has resolved, and the transport had answered it with a response.
DoneWithResponse == pc = "done" /\ reply.isResp

\* The X-Auth-Token values the caller passed in ReqHeaders, under any spelling of the key.
CallerTokenValues ==
    UNION { {reqData.ReqHeaders[k][i] : i \in DOMAIN reqData.ReqHeaders[k]} :
            k \in {c \in DOMAIN reqData.ReqHeaders : CanonicalKey(c) = TokenHeader} }

Last(seq) == seq[Len(seq)]

\* C1 (as claimed): a call whose first k attempts (0 < k) are answered "too many
\* requests" returns a nil error after exactly k retries, k+1 transport calls, and
\* the diagnostic log holds a retry notice.
C1_ThrottledCallRetriesAndSucceeds ==
    (DoneWithResponse /\ k0 > 0 /\ StatusTooManyRequests \notin AllowedSet)
        => /\ err = "none"
           /\ Len(sent) = k0 + 1
           /\ \E i \in DOMAIN logout : logout[i] = RetryNotice

C3_ExactMembership ==
    DoneWithResponse
        => /\ (err = "status") <=> (reply.resp.StatusCode \notin AllowedSet)
           /\ reqData.ExpectedStatus = <<>>
                => ((err = "status") <=> (reply.resp.StatusCode # StatusOK))

C3_Witness ==
    /\ DoneWithResponse
    /\ reqData.ExpectedStatus = <<>>
    /\ reply.resp.StatusCode = 201
    /\ err = "status"

\* C4 (as claimed): with a token every request handed to the transport carries an
\* X-Auth-Token header; with no token none does, whatever the caller's headers.
C4_TokenHeaderIffToken ==
    \A i \in DOMAIN sent :
        /\ AuthToken # "" => HeaderValues(sent[i], TokenHeader) # <<>>
        /\ AuthToken = "" => HeaderValues(sent[i], TokenHeader) = <<>>

\* C4 (amended): with a token every request handed to the transport carries it as
\* an X-Auth-Token value; with no token the request carries an X-Auth-Token header
\* exactly when the caller's extra headers hold one, with the caller's values.
C4_TokenHeaderAmended ==
    \A i \in DOMAIN sent :
        LET values == HeaderValues(sent[i], TokenHeader)
        IN  /\ AuthToken # "" => \E j \in DOMAIN values : values[j] = AuthToken
            /\ AuthToken = "" => {values[j] : j \in DOMAIN values} = CallerTokenValues
            /\ AuthToken = "" => Len(values) = Cardinality(CallerTokenValues)

C4_Witness ==
    /\ pc = "inflight"
    /\ AuthToken = ""
    /\ CallerTokenValues # {}
    /\ HeaderValues(sent[1], TokenHeader) # <<>>

\* C5 (as claimed): with a token and a caller-supplied X-Auth-Token, the value a
\* server reading the header gets is the client's token.
C5_TokenOverridesCaller ==
    \A i \in DOMAIN sent :
        (AuthToken # "" /\ CallerTokenValues # {})
            => HeaderGet(sent[i], TokenHeader) = AuthToken

\* C5 (amended): with a token and a caller-supplied X-Auth-Token, the client's
\* token is the last X-Auth-Token value of the request, after all of the caller's
\* values, and the first value is one of the caller's.
C5_TokenAppendedLast ==
    \A i \in DOMAIN sent :
        (AuthToken # "" /\ CallerTokenValues # {})
            => LET values == HeaderValues(sent[i], TokenHeader)
               IN  /\ Len(values) = Cardinality(CallerTokenValues) + 1
                   /\ Last(values) = AuthToken
                   /\ {values[j] : j \in 1..(Len(values) - 1)} = CallerTokenValues
                   /\ HeaderGet(sent[i], TokenHeader) \in CallerTokenValues

C5_Witness ==
    /\ pc = "inflight"
    /\ AuthToken = "tok"
    /\ HeaderValues(sent[1], TokenHeader) = <<"lower", "caller", "tok">>

IsEnvelope(b) ==
    LET p == ParseJSON(b)
    IN  /\ p.ok
        /\ p.v.t = "object"
        /\ DOMAIN p.v.f = {"error"}
        /\ p.v.f["error"].t = "object"
        /\ DOMAIN p.v.f["error"].f = {"message", "code", "title"}
        /\ p.v.f["error"].f["message"].t = "string"
        /\ p.v.f["error"].f["code"].t = "number"
        /\ p.v.f["error"].f["title"].t = "string"

\* C7 (as claimed): when the body of a response that is not accepted is no error
\* envelope, the error detail is the raw body, also under content type JSON.
C7_OnlyEnvelopeIsStructured ==
    (DoneWithResponse /\ err = "status" /\ ~IsEnvelope(reply.resp.Body))
        => (~errInfo.structured /\ errInfo.raw = reply.resp.Body)

\* C8 (as claimed): after a BinaryRequest that returns nil with a destination, the
\* destination holds the response body, whatever the body and the prior content.
C8_DestinationIsBody ==
    (DoneWithResponse /\ kind = "binary" /\ err = "none" /\ reqData.hasDest)
        => dest = reply.resp.Body

\* C8 (amended): after a BinaryRequest that returns nil with a destination, the
\* destination holds the response body when that body is not empty; after an empty
\* body it holds what it held before the call.
C8_DestinationIsNonEmptyBody ==
    (DoneWithResponse /\ kind = "binary" /\ err = "none" /\ reqData.hasDest)
        => /\ reply.resp.Body # BodyEmpty => dest = reply.resp.Body
           /\ reply.resp.Body = BodyEmpty => dest = dest0

C8_Witness ==
    /\ DoneWithResponse
    /\ kind = "binary"
    /\ err = "none"
    /\ reqData.hasDest
    /\ dest0 = "old"
    /\ reply.resp.Body = BodyText
    /\ dest = BodyText

\* C9: when a call resolves, the body of the response the transport returned is
\* closed, and no call begins with a body open.
C9_BodyClosed ==
    pc \in {"done", "idle", "built", "inflight"} => ~bodyOpen

C9_Witness ==
    /\ DoneWithResponse
    /\ err \in {"status", "unmarshal", "read"}
    /\ ~bodyOpen

\* C10: a call that returns an encoding, request-construction, transport,
\* unexpected-status or body-read error leaves the destination as it was.
C10_DestinationUntouched ==
    (pc = "done" /\ err \in {"marshal", "create", "execute", "status", "read"})
        => dest = dest0

C10_Witness ==
    /\ DoneWithResponse
    /\ err = "read"
    /\ reqData.hasDest
    /\ reply.resp.Body = BodyNetwork
    /\ dest0 = "old"
    /\ dest = "old"

====
